---- MODULE Spec2Model ----
(***************************************************************************)
(* Conversation control loops of the repository's two chatbots:            *)
(*   - the career chatbot (src/connections-chat/app.py): chat() drives the *)
(*     tool loop, handle_tool_calls() dispatches each request, the tool    *)
(*     functions call push();                                              *)
(*   - the profile chatbot (src/profile-chatbot.py): chat() completes,     *)
(*     evaluate() judges, rerun() regenerates once.                        *)
(* The hosted endpoints (completion, judge, Pushover) are the environment: *)
(* every reply they can give, an exception included, is a choice of \E.    *)
(***************************************************************************)
EXTENDS Integers, Sequences, FiniteSets, TLC

\* ------------------------------------------------------------- bounds
\* Most completion calls one career-chatbot turn makes in the model.
MaxModelCalls == 3
\* Most tool call requests one model response carries.
MaxCallsPerRound == 2
\* Most tool call requests of one turn, over all its rounds.
MaxRequests == 2
\* Most completion calls of a turn against the model that keeps asking for
\* tools.
MaxLoopCalls == 10
\* Most turns of the career chatbot one caller runs one after the other.
MaxTurns == 2
\* Most completion calls of each of two turns that run at once.
MaxConcCalls == 2

VARIABLES
    \* career chatbot, module state
    pushover_user,      \* TRUE when PUSHOVER_USER is set
    pushover_token,     \* TRUE when PUSHOVER_TOKEN is set
    \* career chatbot, chat() and handle_tool_calls() locals
    pc,                 \* "idle", "call", "dispatch", "returned", "raised"
    message,            \* the user's utterance
    history,            \* the caller's history list
    messages,           \* chat(): the working message sequence
    response,           \* chat(): the last completion response
    results,            \* handle_tool_calls(): the results list
    idx,                \* handle_tool_calls(): position of the for loop
    reply,              \* the value chat() returned
    error,              \* the exception that left chat()
    \* career chatbot, what the environment observed
    modelCalls,         \* completion requests made in this turn
    sent,               \* the message sequence of the last completion request
    received,           \* finish reason and text of every response, in order
    invoked,            \* the callables entered by the dispatch, in order
    posts,              \* HTTP requests sent to Pushover
    pushed,             \* how the last push() call ended
    \* profile chatbot, chat() locals
    p_pc,               \* "idle", "create", "evaluate", "decide", "rerun", "returned", "raised"
    p_message,          \* the user's utterance, as a sequence of words
    p_history,          \* the caller's history list
    p_system,           \* chat(): the system instructions of the turn
    p_reply,            \* chat(): reply
    evaluation,         \* chat(): evaluation
    p_returned,         \* the value chat() returned
    p_error,            \* the exception that left chat()
    \* profile chatbot, what the environment observed
    p_calls,            \* every endpoint request of the turn, in order
    \* career chatbot, what the caller observed
    turns,              \* the turns that ended before this one, in order
    \* career chatbot, two turns running at once: the locals of each call of
    \* chat() and what the endpoint saw of it, by turn
    c_pc,               \* "idle", "call", "dispatch", "returned", "raised"
    c_in,               \* the arguments: message and history
    c_messages,         \* chat(): messages
    c_response,         \* chat(): response
    c_results,          \* handle_tool_calls(): results
    c_idx,              \* handle_tool_calls(): position of the for loop
    c_reply,            \* the value chat() returned
    c_requests,         \* the message sequences passed to the model, in order
    c_received,         \* the responses the model gave, in order
    \* sales emails: parallel_cold_emails() and selection_from_sales_people()
    s_fn,               \* the function that was called, None before the call
    s_pc,               \* "idle", "gather", "picker", "done", "raised"
    s_run,              \* each sales agent's run: "pending", "running", "done", "raised"
    s_output,           \* each finished run's final_output
    s_order,            \* the agents in the order their runs ended
    s_outputs,          \* outputs
    s_emails,           \* emails, the input of the sales_picker run
    s_printed,          \* what was printed
    \* comparison script
    l_pc,               \* "question", "query", "together", "judge", "parse", "banner", "done", "raised"
    question,           \* question
    competitors,        \* competitors
    answers,            \* answers
    together,           \* together, as its sections
    judge,              \* judge, the content of the request to the judge
    l_results,          \* results, the judge's reply
    rankings,           \* the "Rank n: competitor" lines printed
    parse_error,        \* "Error parsing judge's response as JSON" was printed
    banner,             \* "Comparision Complete!" was printed
    l_error,            \* the exception that ended the script, None if none
    returned_by         \* the answer each provider's endpoint gave, by model name

careerVars == <<pushover_user, pushover_token, pc, message, history, messages,
                response, results, idx, reply, error, modelCalls, sent,
                received, invoked, posts, pushed>>
profileVars == <<p_pc, p_message, p_history, p_system, p_reply, evaluation,
                 p_returned, p_error, p_calls>>
repeatVars == <<turns>>
concVars == <<c_pc, c_in, c_messages, c_response, c_results, c_idx, c_reply,
              c_requests, c_received>>
salesVars == <<s_fn, s_pc, s_run, s_output, s_order, s_outputs, s_emails, s_printed>>
llmVars == <<l_pc, question, competitors, answers, together, judge, l_results,
             rankings, parse_error, banner, l_error, returned_by>>
otherVars == <<repeatVars, concVars, salesVars, llmVars>>
vars == <<careerVars, profileVars, otherVars>>

\* ------------------------------------------------------------- values
None == "None"

\* A message of the conversation. Every message has the same shape here;
\* the fields a role does not carry hold None, 0 or <<>>.
Msg(role, content, id, calls) ==
    [role |-> role, content |-> content, tool_call_id |-> id, tool_calls |-> calls]

SystemMsg == Msg("system", "system_prompt", 0, <<>>)
UserMsg(text) == Msg("user", text, 0, <<>>)

\* The histories and utterances a caller passes in.
Histories == { <<>>, <<UserMsg("hi"), Msg("assistant", "Hello", 0, <<>>)>> }
Utterances == {"What is your email?"}

\* ------------------------------------------------------------- tools
\* The advertised tools: the names of the tools list.
tools == {"record_user_details", "record_unknown_question"}

\* What globals().get(name) finds for the names the model may send:
\* a function, a value that is no function, or nothing.
GlobalNames == {"record_user_details", "record_unknown_question", "push", "name"}

GlobalsGet(tool_name) ==
    CASE tool_name \in {"record_user_details", "record_unknown_question", "push"}
             -> "function"
      [] tool_name = "name" -> "str"
      [] OTHER -> None

\* The arguments string of a request: malformed JSON, or an object with
\* these keys.
Malformed == [wellformed |-> FALSE, keys |-> {}]
Object(keys) == [wellformed |-> TRUE, keys |-> keys]

\* The requests a model response may carry, as name and arguments: the two
\* advertised tools called as advertised, with a required argument missing
\* and with malformed arguments; names that are not advertised, bound in
\* the module (push, name) and not bound (lookup_weather).
Requests ==
    { <<"record_user_details", Object({"email"})>>,
      <<"record_user_details", Object({})>>,
      <<"record_unknown_question", Object({"question"})>>,
      <<"record_unknown_question", Malformed>>,
      <<"push", Object({"message"})>>,
      <<"name", Object({})>>,
      <<"lookup_weather", Object({"city"})>>,
      <<"lookup_weather", Malformed>> }

\* json.loads(tool_call.function.arguments)
JsonLoads(arguments) ==
    IF arguments.wellformed
    THEN [raises |-> FALSE, value |-> arguments.keys]
    ELSE [raises |-> TRUE, value |-> {}]

\* Python's binding of **arguments to the parameters of a function.
Binds(tool_name, keys) ==
    CASE tool_name = "record_user_details"
             -> "email" \in keys /\ keys \subseteq {"email", "name", "notes"}
      [] tool_name = "record_unknown_question" -> keys = {"question"}
      [] tool_name = "push" -> keys = {"message"}
      [] OTHER -> FALSE

\* json.dumps(result) of the results the dispatch can hold.
JsonDumps(result) ==
    CASE result = "recorded_ok" -> "{\"recorded\": \"ok\"}"
      [] result = "empty_dict" -> "{}"
      [] OTHER -> "null"

\* ------------------------------------------------------------- push
\* What the Pushover endpoint does with a request: answers status 1, answers
\* another status, answers an HTTP error status, fails in transport, answers a
\* body that is no JSON, answers JSON that is no object.
PushReplies == {"status_1", "status_0", "http_error", "transport_error",
                "bad_body", "not_object"}

\* Faulty variant of push: the try block catches nothing, so an error of the
\* HTTP request leaves push as an exception.
PushUncaught(o) ==
    IF ~pushover_user \/ ~pushover_token
    THEN [raises |-> FALSE, posted |-> 0, outcome |-> "credentials_missing"]
    ELSE CASE o = "status_1"
                  -> [raises |-> FALSE, posted |-> 1, outcome |-> "sent"]
           [] o = "status_0"
                  -> [raises |-> FALSE, posted |-> 1, outcome |-> "failed"]
           [] o \in {"http_error", "transport_error", "bad_body"}
                  -> [raises |-> TRUE, posted |-> 1, outcome |-> "request_exception"]
           [] OTHER
                  -> [raises |-> TRUE, posted |-> 1, outcome |-> "unexpected_error"]

\* push(message), with the endpoint answering o: whether it raises, the HTTP
\* requests it sends and the line it prints.
Push(o) ==
    IF ~pushover_user \/ ~pushover_token
    THEN [raises |-> FALSE, posted |-> 0, outcome |-> "credentials_missing"]
    ELSE CASE o = "status_1"
                  -> [raises |-> FALSE, posted |-> 1, outcome |-> "sent"]
           [] o = "status_0"
                  -> [raises |-> FALSE, posted |-> 1, outcome |-> "failed"]
           [] o \in {"http_error", "transport_error", "bad_body"}
                  -> [raises |-> FALSE, posted |-> 1, outcome |-> "request_exception"]
           [] OTHER
                  -> [raises |-> FALSE, posted |-> 1, outcome |-> "unexpected_error"]

\* Faulty variant of the tool functions: they report whether the notification
\* was delivered, {"recorded": "ok"} only after a delivery.
ToolBodyReportsOutcome(tool_name, o) ==
    LET p == Push(o)
    IN [raises |-> p.raises,
        result |-> IF tool_name # "push" /\ p.outcome = "sent"
                   THEN "recorded_ok" ELSE None,
        posted |-> p.posted,
        outcome |-> p.outcome]

\* The body of a tool function entered with bound arguments: record_user_details
\* and record_unknown_question call push() and return {"recorded": "ok"};
\* push() itself returns None.
ToolBody(tool_name, o) ==
    LET p == Push(o)
    IN [raises |-> p.raises,
        result |-> IF tool_name = "push" THEN None ELSE "recorded_ok",
        posted |-> p.posted,
        outcome |-> p.outcome]

\* Faulty variant of the loop body: a request that repeats an earlier call
\* of the turn, same name and same arguments, is answered without calling
\* the function again.
InvokeDeduplicated(tool_call, o) ==
    LET parsed == JsonLoads(tool_call.arguments)
        tool == GlobalsGet(tool_call.name)
        quiet == [posted |-> 0, outcome |-> pushed, entered |-> <<>>]
        call == [name |-> tool_call.name, arguments |-> parsed.value]
    IN IF parsed.raises
       THEN quiet @@ [raises |-> TRUE, error |-> "JSONDecodeError", result |-> None]
       ELSE IF tool = None
       THEN quiet @@ [raises |-> FALSE, error |-> None, result |-> "empty_dict"]
       ELSE IF tool # "function" \/ ~Binds(tool_call.name, parsed.value)
       THEN quiet @@ [raises |-> TRUE, error |-> "TypeError", result |-> None]
       ELSE IF \E i \in 1..Len(invoked) : invoked[i] = call
       THEN quiet @@ [raises |-> FALSE, error |-> None,
                      result |-> ToolBody(tool_call.name, o).result]
       ELSE LET b == ToolBody(tool_call.name, o)
            IN [raises |-> b.raises,
                error |-> IF b.raises THEN "RequestException" ELSE None,
                result |-> b.result,
                posted |-> b.posted,
                outcome |-> b.outcome,
                entered |-> <<call>>]

\* One iteration of the for loop of handle_tool_calls, up to the result:
\* parse the arguments, look the name up in globals(), call what was found.
Invoke(tool_call, o) ==
    LET parsed == JsonLoads(tool_call.arguments)
        tool == GlobalsGet(tool_call.name)
        quiet == [posted |-> 0, outcome |-> pushed, entered |-> <<>>]
    IN IF parsed.raises
       THEN quiet @@ [raises |-> TRUE, error |-> "JSONDecodeError", result |-> None]
       ELSE IF tool = None
       THEN quiet @@ [raises |-> FALSE, error |-> None, result |-> "empty_dict"]
       ELSE IF tool # "function" \/ ~Binds(tool_call.name, parsed.value)
       THEN quiet @@ [raises |-> TRUE, error |-> "TypeError", result |-> None]
       ELSE LET b == ToolBody(tool_call.name, o)
            IN [raises |-> b.raises,
                error |-> IF b.raises THEN "RequestException" ELSE None,
                result |-> b.result,
                posted |-> b.posted,
                outcome |-> b.outcome,
                entered |-> <<[name |-> tool_call.name,
                               arguments |-> parsed.value]>>]

\* Faulty variant of the tool message: every result of a round carries the
\* correlation id of the round's first request.
ToolMsgFirstId(result, tool_call) ==
    Msg("tool", JsonDumps(result), response.tool_calls[1].id, <<>>)

\* The tool message appended for a request.
ToolMsg(result, tool_call) == Msg("tool", JsonDumps(result), tool_call.id, <<>>)

\* ------------------------------------------------------------- model
FinalReasons == {"stop", "length", "content_filter"}
Texts == {"Thanks!", "Hello"}

\* The requests of a tool round: n requests, numbered after the ones before.
ToolCalls(base, n) ==
    { [i \in 1..n |-> [id |-> base + i, name |-> f[i][1], arguments |-> f[i][2]]] :
          f \in [1..n -> Requests] }

Min(a, b) == IF a < b THEN a ELSE b

\* The tool call requests made so far in the turn.
Requested == Len(SelectSeq(messages, LAMBDA m : m.role = "tool"))

\* The responses the completion endpoint may give to the next request.
Responses ==
    { [finish_reason |-> r, content |-> t, tool_calls |-> <<>>] :
          r \in FinalReasons, t \in Texts }
    \cup
    IF modelCalls + 1 < MaxModelCalls
    THEN UNION { { [finish_reason |-> "tool_calls", content |-> None, tool_calls |-> c] :
                       c \in ToolCalls(Requested, n) } :
                 n \in 1..Min(MaxCallsPerRound, MaxRequests - Requested) }
    ELSE {}

NoResponse == [finish_reason |-> None, content |-> None, tool_calls |-> <<>>]

\* ------------------------------------------------------------- career chatbot
CareerInit ==
    /\ pushover_user \in BOOLEAN
    /\ pushover_token \in BOOLEAN
    /\ pc = "idle"
    /\ message = None
    /\ history = <<>>
    /\ messages = <<>>
    /\ response = NoResponse
    /\ results = <<>>
    /\ idx = 0
    /\ reply = None
    /\ error = None
    /\ modelCalls = 0
    /\ sent = <<>>
    /\ received = <<>>
    /\ invoked = <<>>
    /\ posts = 0
    /\ pushed = None

\* Faulty variant of the first assignment of chat(): messages is a list of
\* the module that every turn extends.
InitialMessagesKept(m, h) ==
    (IF messages = <<>> THEN <<SystemMsg>> ELSE messages) \o h \o <<UserMsg(m)>>

\* chat(): messages, as first assigned.
InitialMessages(m, h) == <<SystemMsg>> \o h \o <<UserMsg(m)>>

\* chat(message, history), up to the while loop.
Chat ==
    /\ pc = "idle"
    /\ \E m \in Utterances, h \in Histories :
          /\ message' = m
          /\ history' = h
          /\ messages' = InitialMessages(m, h)
    /\ pc' = "call"
    /\ UNCHANGED <<pushover_user, pushover_token, response, results, idx, reply,
                   error, modelCalls, sent, received, invoked, posts, pushed>>
    /\ UNCHANGED <<profileVars, otherVars>>

\* Faulty variant of the branch on finish_reason: only "stop" ends the loop.
CompletedOnStop(r) ==
    /\ response' = r
    /\ received' = Append(received, [finish_reason |-> r.finish_reason,
                                     content |-> r.content])
    /\ IF r.finish_reason # "stop"
       THEN /\ pc' = "dispatch"
            /\ results' = <<>>
            /\ idx' = 1
            /\ UNCHANGED reply
       ELSE /\ pc' = "returned"
            /\ reply' = r.content
            /\ UNCHANGED <<results, idx>>
    /\ UNCHANGED error

\* Faulty variant of the branch on finish_reason: the loop also ends at the
\* third response, whatever its finish reason.
CompletedCapped(r) ==
    /\ response' = r
    /\ received' = Append(received, [finish_reason |-> r.finish_reason,
                                     content |-> r.content])
    /\ IF r.finish_reason = "tool_calls" /\ modelCalls < 2
       THEN /\ pc' = "dispatch"
            /\ results' = <<>>
            /\ idx' = 1
            /\ UNCHANGED reply
       ELSE /\ pc' = "returned"
            /\ reply' = r.content
            /\ UNCHANGED <<results, idx>>
    /\ UNCHANGED error

\* One pass of the while loop up to the branch on finish_reason: the request
\* is made and the endpoint answers r.
Completed(r) ==
    /\ response' = r
    /\ received' = Append(received, [finish_reason |-> r.finish_reason,
                                     content |-> r.content])
    /\ IF r.finish_reason = "tool_calls"
       THEN /\ pc' = "dispatch"
            /\ results' = <<>>
            /\ idx' = 1
            /\ UNCHANGED reply
       ELSE /\ pc' = "returned"
            /\ reply' = r.content
            /\ UNCHANGED <<results, idx>>
    /\ UNCHANGED error

\* The request is made and the endpoint call raises.
Failed ==
    /\ pc' = "raised"
    /\ error' = "APIError"
    /\ UNCHANGED <<response, received, results, idx, reply>>

\* One pass of the while loop, against an endpoint that answers with one of
\* rs or raises; cap bounds the passes of a turn in the model.
ModelCallOf(cap, rs) ==
    /\ pc = "call"
    /\ modelCalls < cap
    /\ modelCalls' = modelCalls + 1
    /\ sent' = messages
    /\ \/ \E r \in rs : Completed(r)
       \/ Failed
    /\ UNCHANGED <<pushover_user, pushover_token, message, history, messages,
                   invoked, posts, pushed>>
    /\ UNCHANGED <<profileVars, otherVars>>

ModelCall == ModelCallOf(MaxModelCalls, Responses)

\* A model that asks for a tool on every response it is allowed to: each
\* round carries one request for record_unknown_question.
LoopResponses ==
    { [finish_reason |-> r, content |-> t, tool_calls |-> <<>>] :
          r \in FinalReasons, t \in Texts }
    \cup
    IF modelCalls + 1 < MaxLoopCalls
    THEN { [finish_reason |-> "tool_calls", content |-> None,
            tool_calls |-> <<[id |-> Requested + 1,
                              name |-> "record_unknown_question",
                              arguments |-> Object({"question"})]>>] }
    ELSE {}

LoopModelCall == ModelCallOf(MaxLoopCalls, LoopResponses)

\* One iteration of the for loop of handle_tool_calls.
HandleToolCall ==
    /\ pc = "dispatch"
    /\ idx <= Len(response.tool_calls)
    /\ \E o \in PushReplies :
          LET tool_call == response.tool_calls[idx]
              got == Invoke(tool_call, o)
          IN /\ invoked' = invoked \o got.entered
             /\ posts' = posts + got.posted
             /\ pushed' = got.outcome
             /\ IF got.raises
                THEN /\ pc' = "raised"
                     /\ error' = got.error
                     /\ UNCHANGED <<results, idx>>
                ELSE /\ results' = Append(results, ToolMsg(got.result, tool_call))
                     /\ idx' = idx + 1
                     /\ UNCHANGED <<pc, error>>
    /\ UNCHANGED <<pushover_user, pushover_token, message, history, messages,
                   response, reply, modelCalls, sent, received>>
    /\ UNCHANGED <<profileVars, otherVars>>

\* Faulty variant of the end of a round: the results are appended before the
\* assistant's message.
EndRoundResultsFirst ==
    /\ pc = "dispatch"
    /\ idx > Len(response.tool_calls)
    /\ messages' = Append(messages \o results,
                          Msg("assistant", response.content, 0, response.tool_calls))
    /\ pc' = "call"
    /\ UNCHANGED <<pushover_user, pushover_token, message, history, response,
                   results, idx, reply, error, modelCalls, sent, received,
                   invoked, posts, pushed>>
    /\ UNCHANGED <<profileVars, otherVars>>

\* Faulty variant of the end of a round: the working sequence is trimmed to
\* a window, the oldest message after the system message being dropped.
EndRoundTrimmed ==
    /\ pc = "dispatch"
    /\ idx > Len(response.tool_calls)
    /\ messages' = <<messages[1]>> \o SubSeq(messages, 3, Len(messages))
                   \o <<Msg("assistant", response.content, 0, response.tool_calls)>>
                   \o results
    /\ pc' = "call"
    /\ UNCHANGED <<pushover_user, pushover_token, message, history, response,
                   results, idx, reply, error, modelCalls, sent, received,
                   invoked, posts, pushed>>
    /\ UNCHANGED <<profileVars, otherVars>>

\* handle_tool_calls returns; chat() appends the assistant's message and
\* the results.
EndRound ==
    /\ pc = "dispatch"
    /\ idx > Len(response.tool_calls)
    /\ messages' = Append(messages,
                          Msg("assistant", response.content, 0, response.tool_calls))
                   \o results
    /\ pc' = "call"
    /\ UNCHANGED <<pushover_user, pushover_token, message, history, response,
                   results, idx, reply, error, modelCalls, sent, received,
                   invoked, posts, pushed>>
    /\ UNCHANGED <<profileVars, otherVars>>

\* A model stub that never asks for tools.
StubResponses ==
    { [finish_reason |-> r, content |-> t, tool_calls |-> <<>>] :
          r \in FinalReasons, t \in Texts }

StubModelCall == ModelCallOf(1, StubResponses)

\* The turn that has ended, as its caller and the endpoint saw it.
Turn ==
    [message |-> message, history |-> history, sent |-> sent,
     received |-> received, pc |-> pc, reply |-> reply]

\* The caller invokes chat() again after a turn has ended: the locals of the
\* ended call are gone, the module's state stays.
ChatAgain ==
    /\ pc \in {"returned", "raised"}
    /\ Len(turns) + 1 < MaxTurns
    /\ turns' = Append(turns, Turn)
    /\ \E m \in Utterances, h \in Histories :
          /\ message' = m
          /\ history' = h
          /\ messages' = InitialMessages(m, h)
    /\ pc' = "call"
    /\ response' = NoResponse
    /\ results' = <<>>
    /\ idx' = 0
    /\ reply' = None
    /\ error' = None
    /\ modelCalls' = 0
    /\ sent' = <<>>
    /\ received' = <<>>
    /\ UNCHANGED <<pushover_user, pushover_token, invoked, posts, pushed>>
    /\ UNCHANGED <<profileVars, concVars, salesVars, llmVars>>

\* ------------------------------------------------------------- career chatbot, two turns at once
\* Gradio runs chat() for each request in a thread of its own: two calls run
\* at once, each with its own locals, over the same module state. A step is
\* what one call does between two of its external calls. The log of entered
\* callables is kept for the single turn of Spec only.
careerTurnVars == <<pushover_user, pushover_token, pc, message, history, messages,
                    response, results, idx, reply, error, modelCalls, sent,
                    received, invoked>>

\* The utterance of each of the two turns.
C_Utterance(t) == IF t = "a" THEN "What is your email?" ELSE "Do you hold a patent?"

\* The responses the endpoint may give a turn: a final text, a round of two
\* requests, a round of one request.
C_Round(calls) == [finish_reason |-> "tool_calls", content |-> None, tool_calls |-> calls]

C_Responses(t) ==
    { [finish_reason |-> "stop", content |-> x, tool_calls |-> <<>>] : x \in Texts }
    \cup
    IF Len(c_requests[t]) + 1 < MaxConcCalls
    THEN { C_Round(<<[id |-> 1, name |-> "record_unknown_question",
                      arguments |-> Object({"question"})],
                     [id |-> 2, name |-> "lookup_weather",
                      arguments |-> Object({"city"})]>>),
           C_Round(<<[id |-> 3, name |-> "record_user_details",
                      arguments |-> Object({"email"})]>>) }
    ELSE {}

\* chat(message, history), up to the while loop, in turn t.
C_Chat(t) ==
    /\ c_pc[t] = "idle"
    /\ \E h \in Histories :
          /\ c_in' = [c_in EXCEPT ![t] = [message |-> C_Utterance(t), history |-> h]]
          /\ c_messages' = [c_messages EXCEPT ![t] = InitialMessages(C_Utterance(t), h)]
    /\ c_pc' = [c_pc EXCEPT ![t] = "call"]
    /\ UNCHANGED <<c_response, c_results, c_idx, c_reply, c_requests, c_received>>
    /\ UNCHANGED <<careerTurnVars, posts, pushed, profileVars, repeatVars, salesVars, llmVars>>

\* One pass of the while loop of turn t, up to the branch on finish_reason.
C_ModelCall(t) ==
    /\ c_pc[t] = "call"
    /\ Len(c_requests[t]) < MaxConcCalls
    /\ c_requests' = [c_requests EXCEPT ![t] = Append(@, c_messages[t])]
    /\ \/ \E r \in C_Responses(t) :
             /\ c_response' = [c_response EXCEPT ![t] = r]
             /\ c_received' = [c_received EXCEPT ![t] = Append(@, r)]
             /\ IF r.finish_reason = "tool_calls"
                THEN /\ c_pc' = [c_pc EXCEPT ![t] = "dispatch"]
                     /\ c_results' = [c_results EXCEPT ![t] = <<>>]
                     /\ c_idx' = [c_idx EXCEPT ![t] = 1]
                     /\ UNCHANGED c_reply
                ELSE /\ c_pc' = [c_pc EXCEPT ![t] = "returned"]
                     /\ c_reply' = [c_reply EXCEPT ![t] = r.content]
                     /\ UNCHANGED <<c_results, c_idx>>
       \/ /\ c_pc' = [c_pc EXCEPT ![t] = "raised"]
          /\ UNCHANGED <<c_response, c_received, c_results, c_idx, c_reply>>
    /\ UNCHANGED <<c_in, c_messages>>
    /\ UNCHANGED <<careerTurnVars, posts, pushed, profileVars, repeatVars, salesVars, llmVars>>

\* One iteration of the for loop of handle_tool_calls in turn t.
C_HandleToolCall(t) ==
    /\ c_pc[t] = "dispatch"
    /\ c_idx[t] <= Len(c_response[t].tool_calls)
    /\ \E o \in PushReplies :
          LET tool_call == c_response[t].tool_calls[c_idx[t]]
              got == Invoke(tool_call, o)
          IN /\ posts' = posts + got.posted
             /\ pushed' = got.outcome
             /\ IF got.raises
                THEN /\ c_pc' = [c_pc EXCEPT ![t] = "raised"]
                     /\ UNCHANGED <<c_results, c_idx>>
                ELSE /\ c_results' = [c_results EXCEPT
                                         ![t] = Append(@, ToolMsg(got.result, tool_call))]
                     /\ c_idx' = [c_idx EXCEPT ![t] = @ + 1]
                     /\ UNCHANGED c_pc
    /\ UNCHANGED <<c_in, c_messages, c_response, c_reply, c_requests, c_received>>
    /\ UNCHANGED <<careerTurnVars, profileVars, repeatVars, salesVars, llmVars>>

\* Faulty variant of the end of a round: results is one list of the module,
\* so a turn appends what both turns have put into it.
C_EndRoundShared(t) ==
    /\ c_pc[t] = "dispatch"
    /\ c_idx[t] > Len(c_response[t].tool_calls)
    /\ c_messages' = [c_messages EXCEPT
                         ![t] = Append(@, Msg("assistant", c_response[t].content, 0,
                                              c_response[t].tool_calls))
                                \o c_results["a"] \o c_results["b"]]
    /\ c_pc' = [c_pc EXCEPT ![t] = "call"]
    /\ UNCHANGED <<c_in, c_response, c_results, c_idx, c_reply, c_requests, c_received>>
    /\ UNCHANGED <<careerTurnVars, posts, pushed, profileVars, repeatVars, salesVars, llmVars>>

\* handle_tool_calls returns in turn t; chat() appends the assistant's
\* message and the results.
C_EndRound(t) ==
    /\ c_pc[t] = "dispatch"
    /\ c_idx[t] > Len(c_response[t].tool_calls)
    /\ c_messages' = [c_messages EXCEPT
                         ![t] = Append(@, Msg("assistant", c_response[t].content, 0,
                                              c_response[t].tool_calls))
                                \o c_results[t]]
    /\ c_pc' = [c_pc EXCEPT ![t] = "call"]
    /\ UNCHANGED <<c_in, c_response, c_results, c_idx, c_reply, c_requests, c_received>>
    /\ UNCHANGED <<careerTurnVars, posts, pushed, profileVars, repeatVars, salesVars, llmVars>>

\* ------------------------------------------------------------- sales emails
\* sales_agent1, sales_agent2, sales_agent3, by position in the gather call.
SalesAgents == {1, 2, 3}

\* The texts a sales agent's run may end with.
Emails == {"Dear CEO,", "Hi there!"}

\* sep.join(xs), as the sequence of its pieces.
RECURSIVE Join(_, _)
Join(sep, xs) ==
    IF Len(xs) <= 1 THEN xs
    ELSE <<xs[1], sep>> \o Join(sep, Tail(xs))

\* Faulty variant of gather: the results in the order the runs ended.
GatherResultsAsCompleted == [k \in 1..Len(s_order) |-> s_output[s_order[k]]]

\* What asyncio.gather returns when every run has ended without raising:
\* the results in the order of its arguments.
GatherResults == [a \in 1..3 |-> s_output[a]]

\* A call of parallel_cold_emails() or selection_from_sales_people(), up to
\* the await of gather: the three runs are scheduled.
S_Start ==
    /\ s_pc = "idle"
    /\ \E f \in {"parallel_cold_emails", "selection_from_sales_people"} : s_fn' = f
    /\ s_pc' = "gather"
    /\ s_run' = [a \in SalesAgents |-> "running"]
    /\ UNCHANGED <<s_output, s_order, s_outputs, s_emails, s_printed>>
    /\ UNCHANGED <<careerVars, profileVars, repeatVars, concVars, llmVars>>

\* Runner.run(agent, message) of one sales agent ends: with its final
\* output, or by raising.
S_Complete(a) ==
    /\ s_run[a] = "running"
    /\ \/ \E e \in Emails :
             /\ s_run' = [s_run EXCEPT ![a] = "done"]
             /\ s_output' = [s_output EXCEPT ![a] = e]
       \/ /\ s_run' = [s_run EXCEPT ![a] = "raised"]
          /\ UNCHANGED s_output
    /\ s_order' = Append(s_order, a)
    /\ UNCHANGED <<s_fn, s_pc, s_outputs, s_emails, s_printed>>
    /\ UNCHANGED <<careerVars, profileVars, repeatVars, concVars, llmVars>>

\* gather raises what a run raised, as soon as one has; the function ends
\* with that exception while the other runs go on.
S_Raise ==
    /\ s_pc = "gather"
    /\ \E a \in SalesAgents : s_run[a] = "raised"
    /\ s_pc' = "raised"
    /\ UNCHANGED <<s_fn, s_run, s_output, s_order, s_outputs, s_emails, s_printed>>
    /\ UNCHANGED <<careerVars, profileVars, repeatVars, concVars, llmVars>>

\* gather returns. parallel_cold_emails prints the outputs;
\* selection_from_sales_people joins them and awaits the sales_picker run.
S_Join ==
    /\ s_pc = "gather"
    /\ \A a \in SalesAgents : s_run[a] = "done"
    /\ s_outputs' = GatherResults
    /\ IF s_fn = "parallel_cold_emails"
       THEN /\ s_printed' = GatherResults
            /\ s_pc' = "done"
            /\ UNCHANGED s_emails
       ELSE /\ s_emails' = <<"Cold sales emails:">> \o Join("Email:", GatherResults)
            /\ s_pc' = "picker"
            /\ UNCHANGED s_printed
    /\ UNCHANGED <<s_fn, s_run, s_output, s_order>>
    /\ UNCHANGED <<careerVars, profileVars, repeatVars, concVars, llmVars>>

\* The sales_picker run ends: its output is printed, or it raises.
S_Pick ==
    /\ s_pc = "picker"
    /\ \/ \E e \in Emails :
             /\ s_printed' = <<"Best sales email:", e>>
             /\ s_pc' = "done"
       \/ /\ s_pc' = "raised"
          /\ UNCHANGED s_printed
    /\ UNCHANGED <<s_fn, s_run, s_output, s_order, s_outputs, s_emails>>
    /\ UNCHANGED <<careerVars, profileVars, repeatVars, concVars, llmVars>>

\* ------------------------------------------------------------- comparison script
\* The models queried, in the order of the script.
Providers == <<"gpt-5-nano", "gemini-2.0-flash", "llama3.2">>

\* message.content of a provider's response: a text, or None.
AnswerTexts == {"x = 2", "x = 3"}
Contents == AnswerTexts \cup {None}

\* The judge's reply: message.content is None, a text that is no JSON, JSON
\* that is no object, an object without "results", an object with a list
\* under "results".
Reply(kind, ranks) == [kind |-> kind, ranks |-> ranks]
NoReply == Reply("unset", <<>>)
JudgeReplies ==
    { Reply("none", <<>>), Reply("not_json", <<>>), Reply("not_object", <<>>),
      Reply("no_key", <<>>),
      Reply("object", <<"1", "2", "3">>), Reply("object", <<"3", "1", "2">>),
      Reply("object", <<"2", "competitor 1">>), Reply("object", <<"1", "4">>),
      Reply("object", <<"0">>) }

NoJudge == [n |-> 0, question |-> None, together |-> <<>>]

\* int(result) of an entry of the ranking.
IsInt(s) == s \in {"0", "1", "2", "3", "4"}
IntOf(s) ==
    CASE s = "0" -> 0 [] s = "1" -> 1 [] s = "2" -> 2 [] s = "3" -> 3 [] OTHER -> 4

\* xs[i] of a Python list: positions from 0, negative ones from the end.
PyIndexOk(xs, i) == -Len(xs) <= i /\ i < Len(xs)
PyIndex(xs, i) == IF i >= 0 THEN xs[i + 1] ELSE xs[Len(xs) + i + 1]

\* Faulty variant of the sections: numbered by index, from 0.
TogetherFromZero(as) == [i \in 1..Len(as) |-> [number |-> i - 1, answer |-> as[i]]]

\* The for loop over enumerate(answers): one section per answer, headed
\* "Response from competitor index+1".
Together(as) == [i \in 1..Len(as) |-> [number |-> i, answer |-> as[i]]]

\* The for loop over enumerate(ranks) from position index: the lines printed
\* and the exception that ended it.
RECURSIVE RankLines(_, _, _)
RankLines(ranks, cs, index) ==
    IF index > Len(ranks) THEN [lines |-> <<>>, error |-> None]
    ELSE IF ~IsInt(ranks[index]) THEN [lines |-> <<>>, error |-> "ValueError"]
    ELSE IF ~PyIndexOk(cs, IntOf(ranks[index]) - 1)
    THEN [lines |-> <<>>, error |-> "IndexError"]
    ELSE LET rest == RankLines(ranks, cs, index + 1)
         IN [lines |-> <<[rank |-> index,
                          competitor |-> PyIndex(cs, IntOf(ranks[index]) - 1)]>>
                       \o rest.lines,
             error |-> rest.error]

LlmInit ==
    /\ l_pc = "question"
    /\ question = None
    /\ competitors = <<>>
    /\ answers = <<>>
    /\ together = <<>>
    /\ judge = NoJudge
    /\ l_results = NoReply
    /\ rankings = <<>>
    /\ parse_error = FALSE
    /\ banner = FALSE
    /\ l_error = None
    /\ returned_by = [m \in {} |-> None]

\* The script up to the lists: the question is asked for; competitors and
\* answers start empty.
L_Question ==
    /\ l_pc = "question"
    /\ \/ /\ question' = "JEE question"
          /\ l_pc' = "query"
          /\ UNCHANGED l_error
       \/ /\ l_pc' = "raised"
          /\ l_error' = "APIError"
          /\ UNCHANGED question
    /\ UNCHANGED <<competitors, answers, together, judge, l_results, rankings,
                   parse_error, banner, returned_by>>
    /\ UNCHANGED <<careerVars, profileVars, repeatVars, concVars, salesVars>>

\* The query of the next provider: the request, then both appends; after the
\* third, the summary is printed.
L_Query ==
    /\ l_pc = "query"
    /\ LET model_name == Providers[Len(competitors) + 1]
       IN \/ \E answer \in Contents :
                /\ returned_by' = (model_name :> answer) @@ returned_by
                /\ competitors' = Append(competitors, model_name)
                /\ answers' = Append(answers, answer)
                /\ l_pc' = IF Len(competitors) + 1 = Len(Providers)
                           THEN "together" ELSE "query"
                /\ UNCHANGED l_error
          \/ /\ l_pc' = "raised"
             /\ l_error' = "APIError"
             /\ UNCHANGED <<competitors, answers, returned_by>>
    /\ UNCHANGED <<question, together, judge, l_results, rankings, parse_error,
                   banner>>
    /\ UNCHANGED <<careerVars, profileVars, repeatVars, concVars, salesVars>>

\* together is built; answer + "\n\n" raises for an answer that is None.
L_Together ==
    /\ l_pc = "together"
    /\ IF \E i \in 1..Len(answers) : answers[i] = None
       THEN /\ l_pc' = "raised"
            /\ l_error' = "TypeError"
            /\ together' = Together(SubSeq(answers, 1,
                   CHOOSE i \in 1..Len(answers) :
                       /\ answers[i] = None
                       /\ \A j \in 1..(i - 1) : answers[j] # None) )
       ELSE /\ l_pc' = "judge"
            /\ together' = Together(answers)
            /\ UNCHANGED l_error
    /\ UNCHANGED <<question, competitors, answers, judge, l_results, rankings,
                   parse_error, banner, returned_by>>
    /\ UNCHANGED <<careerVars, profileVars, repeatVars, concVars, salesVars>>

\* The judge prompt is built and sent; the judge replies or the call raises.
L_Judge ==
    /\ l_pc = "judge"
    /\ judge' = [n |-> Len(competitors), question |-> question, together |-> together]
    /\ \/ \E r \in JudgeReplies :
             /\ l_results' = r
             /\ l_pc' = "parse"
             /\ UNCHANGED l_error
       \/ /\ l_pc' = "raised"
          /\ l_error' = "APIError"
          /\ UNCHANGED l_results
    /\ UNCHANGED <<question, competitors, answers, together, rankings, parse_error,
                   banner, returned_by>>
    /\ UNCHANGED <<careerVars, profileVars, repeatVars, concVars, salesVars>>

\* The try statement: json.loads, the "results" entry, the ranking lines;
\* only json.JSONDecodeError is caught.
L_Parse ==
    /\ l_pc = "parse"
    /\ LET got == RankLines(l_results.ranks, competitors, 1)
           raised == CASE l_results.kind = "none" -> "TypeError"
                       [] l_results.kind = "not_json" -> None
                       [] l_results.kind = "not_object" -> "TypeError"
                       [] l_results.kind = "no_key" -> "KeyError"
                       [] OTHER -> got.error
       IN /\ parse_error' = (l_results.kind = "not_json")
          /\ rankings' = IF l_results.kind = "object" THEN got.lines ELSE <<>>
          /\ l_error' = raised
          /\ l_pc' = IF raised = None THEN "banner" ELSE "raised"
    /\ UNCHANGED <<question, competitors, answers, together, judge, l_results,
                   banner, returned_by>>
    /\ UNCHANGED <<careerVars, profileVars, repeatVars, concVars, salesVars>>

\* The completion banner is printed and the script ends.
L_Banner ==
    /\ l_pc = "banner"
    /\ banner' = TRUE
    /\ l_pc' = "done"
    /\ UNCHANGED <<question, competitors, answers, together, judge, l_results,
                   rankings, parse_error, l_error, returned_by>>
    /\ UNCHANGED <<careerVars, profileVars, repeatVars, concVars, salesVars>>

\* ------------------------------------------------------------- profile chatbot
\* The system prompt, as the sequence of its sections.
system_prompt == <<"system_prompt">>

\* The utterances a caller passes in, as sequences of words.
P_Utterances == { <<"tell", "me", "more">>, <<"any", "patent", "?">> }
Feedbacks == {"too informal", "off topic"}

\* word in message
Contains(m, word) == \E i \in 1..Len(m) : m[i] = word

\* chat(): the system instructions of the turn.
System(m) ==
    IF Contains(m, "patent") THEN system_prompt \o <<"pig_latin">> ELSE system_prompt

\* Faulty variant of updated_system_prompt: the feedback is left out.
UpdatedSystemPromptNoFeedback(r, feedback) ==
    system_prompt \o <<"## Previous answer rejected", r>>

\* rerun(): updated_system_prompt
UpdatedSystemPrompt(r, feedback) ==
    system_prompt \o <<"## Previous answer rejected", r, feedback>>

\* The Evaluation the judge's response parses to, and the absent one.
Evaluation(ok, feedback) ==
    [parsed |-> TRUE, is_acceptable |-> ok, feedback |-> feedback]
NoEvaluation == [parsed |-> FALSE, is_acceptable |-> FALSE, feedback |-> None]

\* Faulty variant of the test of the evaluation: the condition is inverted.
IsAcceptableInverted(e) ==
    IF e.parsed
    THEN [raises |-> FALSE, value |-> ~e.is_acceptable]
    ELSE [raises |-> TRUE, value |-> FALSE]

\* Faulty variant of the test of the evaluation: an absent evaluation counts
\* as a rejection (if evaluation and evaluation.is_acceptable).
IsAcceptableOrAbsent(e) ==
    [raises |-> FALSE, value |-> e.parsed /\ e.is_acceptable]

\* evaluation.is_acceptable: an attribute of None raises.
IsAcceptable(e) ==
    IF e.parsed
    THEN [raises |-> FALSE, value |-> e.is_acceptable]
    ELSE [raises |-> TRUE, value |-> FALSE]

\* A request as the endpoint saw it, with the text it answered.
Call(endpoint, system, r, text) ==
    [endpoint |-> endpoint, system |-> system, history |-> p_history,
     message |-> p_message, reply |-> r, text |-> text]

\* The two turns that run at once.
TurnIds == {"a", "b"}
NoInput == [message |-> None, history |-> <<>>]

ConcInit ==
    /\ c_pc = [t \in TurnIds |-> "idle"]
    /\ c_in = [t \in TurnIds |-> NoInput]
    /\ c_messages = [t \in TurnIds |-> <<>>]
    /\ c_response = [t \in TurnIds |-> NoResponse]
    /\ c_results = [t \in TurnIds |-> <<>>]
    /\ c_idx = [t \in TurnIds |-> 0]
    /\ c_reply = [t \in TurnIds |-> None]
    /\ c_requests = [t \in TurnIds |-> <<>>]
    /\ c_received = [t \in TurnIds |-> <<>>]

SalesInit ==
    /\ s_fn = None
    /\ s_pc = "idle"
    /\ s_run = [a \in SalesAgents |-> "pending"]
    /\ s_output = [a \in SalesAgents |-> None]
    /\ s_order = <<>>
    /\ s_outputs = <<>>
    /\ s_emails = <<>>
    /\ s_printed = <<>>

OtherInit ==
    /\ turns = <<>>
    /\ ConcInit
    /\ SalesInit
    /\ LlmInit

ProfileInit ==
    /\ p_pc = "idle"
    /\ p_message = <<>>
    /\ p_history = <<>>
    /\ p_system = <<>>
    /\ p_reply = None
    /\ evaluation = NoEvaluation
    /\ p_returned = None
    /\ p_error = None
    /\ p_calls = <<>>

\* chat(message, history), up to the first completion request.
P_Chat ==
    /\ p_pc = "idle"
    /\ \E m \in P_Utterances, h \in Histories :
          /\ p_message' = m
          /\ p_history' = h
          /\ p_system' = System(m)
    /\ p_pc' = "create"
    /\ UNCHANGED <<p_reply, evaluation, p_returned, p_error, p_calls>>
    /\ UNCHANGED <<careerVars, otherVars>>

\* chat(): the completion request for the original reply.
P_Create ==
    /\ p_pc = "create"
    /\ \/ \E t \in Texts :
             /\ p_calls' = Append(p_calls, Call("completion", p_system, None, t))
             /\ p_reply' = t
             /\ p_pc' = "evaluate"
             /\ UNCHANGED p_error
       \/ /\ p_calls' = Append(p_calls, Call("completion", p_system, None, None))
          /\ p_pc' = "raised"
          /\ p_error' = "APIError"
          /\ UNCHANGED p_reply
    /\ UNCHANGED <<p_message, p_history, p_system, evaluation, p_returned>>
    /\ UNCHANGED <<careerVars, otherVars>>

\* evaluate(reply, message, history): the judge answers with an Evaluation,
\* with a response that holds no parsed Evaluation, or the call raises.
P_Evaluate ==
    /\ p_pc = "evaluate"
    /\ p_calls' = Append(p_calls, Call("judge", <<"evaluator_system_prompt">>,
                                       p_reply, None))
    /\ \/ \E ok \in BOOLEAN, f \in Feedbacks :
             /\ evaluation' = Evaluation(ok, f)
             /\ p_pc' = "decide"
             /\ UNCHANGED p_error
       \/ /\ evaluation' = NoEvaluation
          /\ p_pc' = "decide"
          /\ UNCHANGED p_error
       \/ /\ p_pc' = "raised"
          /\ p_error' = "APIError"
          /\ UNCHANGED evaluation
    /\ UNCHANGED <<p_message, p_history, p_system, p_reply, p_returned>>
    /\ UNCHANGED <<careerVars, otherVars>>

\* chat(): the branch on evaluation.is_acceptable.
P_Decide ==
    /\ p_pc = "decide"
    /\ LET a == IsAcceptable(evaluation)
       IN IF a.raises
          THEN /\ p_pc' = "raised"
               /\ p_error' = "AttributeError"
               /\ UNCHANGED p_returned
          ELSE IF a.value
          THEN /\ p_pc' = "returned"
               /\ p_returned' = p_reply
               /\ UNCHANGED p_error
          ELSE /\ p_pc' = "rerun"
               /\ UNCHANGED <<p_returned, p_error>>
    /\ UNCHANGED <<p_message, p_history, p_system, p_reply, evaluation, p_calls>>
    /\ UNCHANGED <<careerVars, otherVars>>

\* Variant of the regeneration that extends the system instructions of the
\* turn (system) instead of system_prompt.
P_RerunTurnSystem ==
    /\ p_pc = "rerun"
    /\ LET updated == p_system \o <<"## Previous answer rejected", p_reply,
                                    evaluation.feedback>>
       IN \/ \E t \in Texts :
                /\ p_calls' = Append(p_calls, Call("completion", updated, None, t))
                /\ p_reply' = t
                /\ p_returned' = t
                /\ p_pc' = "returned"
                /\ UNCHANGED p_error
          \/ /\ p_calls' = Append(p_calls, Call("completion", updated, None, None))
             /\ p_pc' = "raised"
             /\ p_error' = "APIError"
             /\ UNCHANGED <<p_reply, p_returned>>
    /\ UNCHANGED <<p_message, p_history, p_system, evaluation>>
    /\ UNCHANGED <<careerVars, otherVars>>

\* Faulty variant of the regeneration: the regenerated reply is sent back
\* to the judge instead of being returned.
P_RerunJudged ==
    /\ p_pc = "rerun"
    /\ \E t \in Texts :
          /\ p_calls' = Append(p_calls,
                 Call("completion", UpdatedSystemPrompt(p_reply, evaluation.feedback),
                      None, t))
          /\ p_reply' = t
          /\ p_pc' = "evaluate"
    /\ UNCHANGED <<p_message, p_history, p_system, evaluation, p_returned, p_error>>
    /\ UNCHANGED <<careerVars, otherVars>>

\* rerun(reply, message, history, feedback), and chat() returning its text.
P_Rerun ==
    /\ p_pc = "rerun"
    /\ LET updated == UpdatedSystemPrompt(p_reply, evaluation.feedback)
       IN \/ \E t \in Texts :
                /\ p_calls' = Append(p_calls, Call("completion", updated, None, t))
                /\ p_reply' = t
                /\ p_returned' = t
                /\ p_pc' = "returned"
                /\ UNCHANGED p_error
          \/ /\ p_calls' = Append(p_calls, Call("completion", updated, None, None))
             /\ p_pc' = "raised"
             /\ p_error' = "APIError"
             /\ UNCHANGED <<p_reply, p_returned>>
    /\ UNCHANGED <<p_message, p_history, p_system, evaluation>>
    /\ UNCHANGED <<careerVars, otherVars>>

\* ------------------------------------------------------------- specifications
Init == CareerInit /\ ProfileInit /\ OtherInit

\* One turn of the career chatbot.
Next == Chat \/ ModelCall \/ HandleToolCall \/ EndRound
Spec == Init /\ [][Next]_vars

\* One turn of the profile chatbot.
ProfileNext == P_Chat \/ P_Create \/ P_Evaluate \/ P_Decide \/ P_Rerun
ProfileSpec == Init /\ [][ProfileNext]_vars

\* One turn of the career chatbot against the model that keeps asking for
\* tools.
LoopNext == Chat \/ LoopModelCall \/ HandleToolCall \/ EndRound
LoopSpec == Init /\ [][LoopNext]_vars

\* Turns of the career chatbot, one after the other, against the model stub.
RepeatNext == Chat \/ StubModelCall \/ ChatAgain
RepeatSpec == Init /\ [][RepeatNext]_vars

\* Two turns of the career chatbot at once, their steps in any order.
ConcNext ==
    \E t \in TurnIds :
        C_Chat(t) \/ C_ModelCall(t) \/ C_HandleToolCall(t) \/ C_EndRound(t)
ConcSpec == Init /\ [][ConcNext]_vars

\* The sales emails: one call of either function.
SalesNext ==
    \/ S_Start
    \/ \E a \in SalesAgents : S_Complete(a)
    \/ S_Raise
    \/ S_Join
    \/ S_Pick
SalesSpec == Init /\ [][SalesNext]_vars

\* The comparison script, run once.
LlmNext == L_Question \/ L_Query \/ L_Together \/ L_Judge \/ L_Parse \/ L_Banner
LlmSpec == Init /\ [][LlmNext]_vars

\* ------------------------------------------------------------- career chatbot: properties
\* C1: when the driver is about to call the model after a tool round of n
\* requests, the round has appended to the sequence of the previous call the
\* assistant's message and then exactly n tool messages, the i-th carrying the
\* correlation id of the i-th request: no request of the round is unanswered.
RoundAnswered ==
    (pc = "call" /\ modelCalls >= 1) =>
        LET n == Len(response.tool_calls)
            base == Len(sent) + 1
        IN /\ Len(messages) = base + n
           /\ \A i \in 1..Len(sent) : messages[i] = sent[i]
           /\ messages[base].role = "assistant"
           /\ \A i \in 1..n :
                 /\ messages[base + i].role = "tool"
                 /\ messages[base + i].tool_call_id = response.tool_calls[i].id

\* A round of two requests has been answered and the next call is due.
RoundOfTwoAnswered ==
    pc = "call" /\ modelCalls >= 1 /\ Len(response.tool_calls) = 2

\* C2: when the first response of a turn has a finish reason other than
\* tool_calls, the turn has returned that response's text after exactly one
\* completion request and without entering any callable.
FinalAtFirstResponse ==
    (Len(received) >= 1 /\ received[1].finish_reason # "tool_calls") =>
        /\ pc = "returned"
        /\ modelCalls = 1
        /\ invoked = <<>>
        /\ posts = 0
        /\ reply = received[1].content

\* A turn whose first response stopped for length has returned.
ReturnedAtLength ==
    /\ pc = "returned"
    /\ modelCalls = 1
    /\ received[1].finish_reason = "length"
    /\ reply = "Thanks!"

\* C3: every callable the dispatch enters is one of the advertised tools.
OnlyAdvertisedDispatched ==
    \A i \in 1..Len(invoked) : invoked[i].name \in tools

\* C4: a request whose name is not advertised is answered by a tool message
\* holding the serialized empty mapping and the request's correlation id, and
\* the dispatch goes on to the next request.
UnregisteredAnsweredEmpty ==
    [][ ( /\ pc = "dispatch"
          /\ idx <= Len(response.tool_calls)
          /\ response.tool_calls[idx].name \notin tools )
        => ( /\ pc' = "dispatch"
             /\ idx' = idx + 1
             /\ results' = Append(results,
                    Msg("tool", "{}", response.tool_calls[idx].id, <<>>)) ) ]_vars

\* C8: no exception raised while a tool call request is handled leaves chat().
NoFailureEscapesDispatch ==
    ~(pc = "raised" /\ error \in {"JSONDecodeError", "TypeError", "RequestException"})

\* C10: a push() that did not deliver (credentials missing, transport or HTTP
\* error, a response that is no success) returns normally: the tool function
\* that called it returns its result, the result is appended and the dispatch
\* goes on.
PushFailures == {"credentials_missing", "failed", "request_exception",
                 "unexpected_error"}

PushFailureContinues ==
    [][ (Len(invoked') > Len(invoked) /\ pushed' \in PushFailures)
        => ( /\ pc' = "dispatch"
             /\ idx' = idx + 1
             /\ Len(results') = Len(results) + 1
             /\ results'[Len(results')].tool_call_id = response.tool_calls[idx].id
             /\ (response.tool_calls[idx].name \in tools
                    => results'[Len(results')].content = "{\"recorded\": \"ok\"}") ) ]_vars

\* A turn has returned a reply after a push() whose HTTP request failed.
ReturnedAfterFailedPush ==
    pc = "returned" /\ pushed = "request_exception" /\ posts >= 1

\* s is a prefix of t
IsPrefix(s, t) == Len(s) <= Len(t) /\ SubSeq(t, 1, Len(s)) = s

\* C11: once chat() has built its working sequence, no step changes the
\* caller's history, the working sequence only grows at its end, the sequence
\* of each completion request extends the sequence of the request before it,
\* and the working sequence still starts with the system message, the
\* caller's history and the utterance.
AppendOnly ==
    [][ /\ (pc # "idle" => history' = history)
        /\ (pc # "idle" => IsPrefix(messages, messages'))
        /\ ((modelCalls >= 1 /\ modelCalls' = modelCalls + 1) => IsPrefix(sent, sent'))
        /\ (pc' # "idle" =>
               IsPrefix(<<SystemMsg>> \o history' \o <<UserMsg(message')>>, messages')) ]_vars

\* A turn with a history has returned after two tool rounds.
ReturnedAfterTwoRounds ==
    pc = "returned" /\ modelCalls = 3 /\ history # <<>> /\ Len(messages) > Len(history) + 4

\* C12: a turn makes at most a fixed number of completion requests, the 8
\* that the specification names, and a response that asks for tools at that
\* number ends the turn with an error.
LoopCapped ==
    /\ modelCalls <= 8
    /\ (modelCalls = 8 /\ Len(received) = 8
            /\ received[8].finish_reason = "tool_calls") => pc = "raised"

\* C13: no exception leaves chat(): a turn that has ended has returned a
\* value, a reply or a failure message.
TurnNeverRaises ==
    pc # "raised" /\ p_pc # "raised"

\* C14: a turn that has returned, and an earlier returned turn of the same
\* utterance and history that got the same response, sent the same message
\* sequence to the model and returned the same reply.
SameInputsSameOutput ==
    \A i \in 1..Len(turns) :
        ( /\ pc = "returned"
          /\ turns[i].pc = "returned"
          /\ turns[i].message = message
          /\ turns[i].history = history
          /\ turns[i].received = received )
        => (turns[i].sent = sent /\ turns[i].reply = reply)

\* A second turn has returned after a first one of the same utterance and
\* history that got the same normal-stop response.
RepeatedTurnReturned ==
    /\ pc = "returned"
    /\ Len(turns) = 1
    /\ turns[1] = Turn
    /\ received[1].finish_reason = "stop"
    /\ history # <<>>

\* The tool call requests of the assistant messages of ms, in order.
RECURSIVE AllToolCalls(_)
AllToolCalls(ms) ==
    IF ms = <<>> THEN <<>> ELSE ms[1].tool_calls \o AllToolCalls(Tail(ms))

\* The requests of the turn that the dispatch has got through: those of the
\* rounds appended and, inside a round, those before the loop's position.
Handled ==
    AllToolCalls(messages)
    \o (IF pc = "dispatch" THEN SubSeq(response.tool_calls, 1, idx - 1) ELSE <<>>)

\* The calls that requests for advertised tools ask for, in request order.
AdvertisedCalls(requests) ==
    LET rs == SelectSeq(requests, LAMBDA t : t.name \in tools)
    IN [i \in 1..Len(rs) |->
           [name |-> rs[i].name, arguments |-> JsonLoads(rs[i].arguments).value]]

\* C15: as long as no exception has ended the turn, the calls of advertised
\* tools entered so far are, in order and one for one, the calls that the
\* requests handled so far ask for, with the arguments of the request: a
\* request that repeats an earlier one is called again.
EachRequestInvokedOnce ==
    pc # "raised" =>
        SelectSeq(invoked, LAMBDA c : c.name \in tools) = AdvertisedCalls(Handled)

\* A turn has returned "Thanks!" after calling record_user_details with an
\* email for each of two identical requests.
RepeatedRequestInvokedTwice ==
    /\ pc = "returned"
    /\ reply = "Thanks!"
    /\ invoked = <<[name |-> "record_user_details", arguments |-> {"email"}],
                   [name |-> "record_user_details", arguments |-> {"email"}]>>

\* C16, as claimed: when a function is entered for a request of a round, the
\* assistant's message that carries the round's requests is already the last
\* message of the working sequence.
AssistantAppendedBeforeHandlers ==
    [][ Len(invoked') > Len(invoked)
        => ( /\ messages # <<>>
             /\ messages[Len(messages)].role = "assistant"
             /\ messages[Len(messages)].tool_calls = response.tool_calls ) ]_vars

\* C16, amended: while the requests of a round are handled the working
\* sequence is still the one last sent to the model; when the next request
\* is due it is that sequence, then the assistant's message with the round's
\* requests, then the round's results, one per request in request order.
RoundAppendedAfterHandlers ==
    /\ (pc = "dispatch" => messages = sent)
    /\ (pc = "call" /\ modelCalls >= 1) =>
          /\ messages = sent
                \o <<Msg("assistant", response.content, 0, response.tool_calls)>>
                \o results
          /\ Len(results) = Len(response.tool_calls)
          /\ \A i \in 1..Len(results) :
                results[i].tool_call_id = response.tool_calls[i].id

\* The next request is due after a round of two requests for which
\* functions were entered.
RoundOfTwoAppended ==
    /\ pc = "call"
    /\ modelCalls = 1
    /\ Len(invoked) = 2
    /\ Len(messages) = Len(sent) + 3

\* C17: a response with a finish reason other than tool_calls ends the loop
\* in the step that receives it: chat() returns its text and enters no
\* function; a response that asks for tools never ends the loop, however many
\* came before it; and chat() returns in no other step.
LoopEndsOnFinalResponse ==
    [][ /\ (Len(received') > Len(received) =>
               LET r == received'[Len(received')]
               IN IF r.finish_reason = "tool_calls"
                  THEN pc' = "dispatch" /\ reply' = reply
                  ELSE pc' = "returned" /\ reply' = r.content /\ invoked' = invoked)
        /\ ((pc' = "returned" /\ pc # "returned") =>
               ( /\ Len(received') = Len(received) + 1
                 /\ received'[Len(received')].finish_reason # "tool_calls"
                 /\ \A i \in 1..Len(received) :
                       received[i].finish_reason = "tool_calls" )) ]_vars

\* A turn has returned at its ninth response, which was cut by the content
\* filter, after eight rounds of tools.
ReturnedAtNinthResponse ==
    /\ pc = "returned"
    /\ modelCalls = 9
    /\ received[9].finish_reason = "content_filter"
    /\ reply = received[9].content

\* C21: a call that enters push() with a Pushover credential missing sends no
\* HTTP request and returns, and a call of record_user_details or
\* record_unknown_question appends the tool message {"recorded": "ok"}
\* whatever became of the notification: credentials missing, not delivered,
\* delivered.
NotificationOutcomeInvisible ==
    [][ Len(invoked') > Len(invoked)
        => ( /\ pushed' \in PushFailures \cup {"sent"}
             /\ (~pushover_user \/ ~pushover_token)
                    => ( /\ posts' = posts
                         /\ pushed' = "credentials_missing"
                         /\ pc' = "dispatch" )
             /\ response.tool_calls[idx].name \in tools
                    => ( /\ pc' = "dispatch"
                         /\ results' = Append(results,
                               Msg("tool", "{\"recorded\": \"ok\"}",
                                   response.tool_calls[idx].id, <<>>)) ) ) ]_vars

\* With the Pushover token missing, a turn has returned after both tool
\* functions answered {"recorded": "ok"} and no HTTP request was sent.
RecordedWithoutCredentials ==
    /\ pc = "returned"
    /\ pushover_user /\ ~pushover_token
    /\ posts = 0
    /\ pushed = "credentials_missing"
    /\ \E i, j \in 1..Len(invoked) :
          /\ invoked[i].name = "record_user_details"
          /\ invoked[j].name = "record_unknown_question"
    /\ \E i \in 1..Len(messages) :
          /\ messages[i].role = "tool"
          /\ messages[i].content = "{\"recorded\": \"ok\"}"

\* ------------------------------------------------------------- profile chatbot: properties
JudgeCalls == SelectSeq(p_calls, LAMBDA c : c.endpoint = "judge")
CompletionCalls == SelectSeq(p_calls, LAMBDA c : c.endpoint = "completion")

\* C5: a turn calls the judge at most once, and exactly once when it has got
\* past the evaluation; it calls the completion endpoint at most twice, first
\* for the original reply and then at most once for a regeneration.
GateCallBudget ==
    /\ Len(JudgeCalls) <= 1
    /\ Len(CompletionCalls) <= 2
    /\ (p_pc \in {"decide", "rerun", "returned"} => Len(JudgeCalls) = 1)
    /\ (Len(CompletionCalls) >= 1 => CompletionCalls[1].system = p_system)
    /\ (Len(CompletionCalls) = 2 =>
            CompletionCalls[2].system =
                UpdatedSystemPrompt(JudgeCalls[1].reply, evaluation.feedback))

\* A turn has returned after an original and a regeneration request.
ReturnedAfterTwoCompletions ==
    p_pc = "returned" /\ Len(CompletionCalls) = 2 /\ Len(JudgeCalls) = 1

\* C6: a turn that returns after a rejection has made exactly three requests,
\* the original completion, the judgement and one regeneration, in this order;
\* the system instructions of the regeneration hold the feedback and the
\* rejected candidate; the turn returns the regeneration's text; and in every
\* state a regeneration request is the last request made, so that no
\* judgement and no second regeneration follow it.
RejectedRegeneratedOnce ==
    /\ \A i \in 2..Len(p_calls) :
          p_calls[i].endpoint = "completion" => (i = 3 /\ i = Len(p_calls))
    /\ (p_pc = "returned" /\ evaluation.parsed /\ ~evaluation.is_acceptable) =>
          /\ Len(p_calls) = 3
          /\ p_calls[1].endpoint = "completion"
          /\ p_calls[2].endpoint = "judge"
          /\ p_calls[2].reply = p_calls[1].text
          /\ p_calls[3].endpoint = "completion"
          /\ Contains(p_calls[3].system, evaluation.feedback)
          /\ Contains(p_calls[3].system, p_calls[1].text)
          /\ p_returned = p_calls[3].text

\* A turn has returned a regenerated text that differs from the candidate
\* rejected as too informal.
ReturnedRegenerated ==
    /\ p_pc = "returned"
    /\ evaluation = Evaluation(FALSE, "too informal")
    /\ Len(p_calls) = 3
    /\ p_returned # p_calls[1].text

\* C7: a turn whose candidate the judge accepts returns the candidate as the
\* completion endpoint gave it, and makes no request after the judgement.
AcceptedReturnedUnchanged ==
    (evaluation.parsed /\ evaluation.is_acceptable) =>
        /\ Len(p_calls) = 2
        /\ p_pc \in {"decide", "returned"}
        /\ p_reply = p_calls[1].text
        /\ (p_pc = "returned" => p_returned = p_calls[1].text)

\* A turn has returned an accepted candidate.
ReturnedAccepted ==
    p_pc = "returned" /\ evaluation.parsed /\ evaluation.is_acceptable
        /\ p_returned = "Hello"

\* C9: once the judge has been called and the turn holds no Evaluation, the
\* turn is at the test of the evaluation or has ended with an exception: it
\* has returned nothing and has made no regeneration request.
AbsentEvaluationIsError ==
    (Len(JudgeCalls) = 1 /\ ~evaluation.parsed) =>
        /\ p_pc \in {"decide", "raised"}
        /\ (p_pc = "raised" => p_error \in {"AttributeError", "APIError"})
        /\ p_returned = None
        /\ Len(CompletionCalls) = 1

\* A turn has ended with the exception of the test of an absent evaluation.
RaisedOnAbsentEvaluation ==
    /\ p_pc = "raised"
    /\ p_error = "AttributeError"
    /\ Len(JudgeCalls) = 1
    /\ ~evaluation.parsed

\* What rerun() adds to the system instructions it starts from.
Rejection == <<"## Previous answer rejected", p_calls[1].text, evaluation.feedback>>

\* C18, as claimed: the system instructions of a regeneration request are
\* those of the turn's original completion request, extended with the
\* rejected candidate and the feedback; history and utterance are the same.
RegenerationExtendsTurnSystem ==
    \A i \in 2..Len(p_calls) :
        p_calls[i].endpoint = "completion" =>
            /\ p_calls[i].system = p_calls[1].system \o Rejection
            /\ p_calls[i].history = p_calls[1].history
            /\ p_calls[i].message = p_calls[1].message

\* C18, amended: the system instructions of a regeneration request are the
\* module's system_prompt extended with the rejected candidate and the
\* feedback, without the instruction that the turn added for an utterance
\* that holds "patent"; they extend those of the original request exactly
\* when the utterance holds no "patent"; history and utterance are the same.
RegenerationExtendsSystemPrompt ==
    \A i \in 2..Len(p_calls) :
        p_calls[i].endpoint = "completion" =>
            /\ p_calls[i].system = system_prompt \o Rejection
            /\ ~Contains(p_calls[i].system, "pig_latin")
            /\ (p_calls[i].system = p_calls[1].system \o Rejection
                    <=> ~Contains(p_message, "patent"))
            /\ p_calls[i].history = p_history
            /\ p_calls[i].history = p_calls[1].history
            /\ p_calls[i].message = p_message
            /\ p_calls[i].message = p_calls[1].message

\* A turn about a patent, with a history, has returned a regenerated reply.
ReturnedRegeneratedPatent ==
    /\ p_pc = "returned"
    /\ Len(p_calls) = 3
    /\ Contains(p_message, "patent")
    /\ Contains(p_calls[1].system, "pig_latin")
    /\ p_history # <<>>

\* ------------------------------------------------------------- two turns at once: properties
\* What a turn that runs alone appends for a response that asks for tools:
\* the assistant's message and one result per request.
RECURSIVE AloneResults(_)
AloneResults(calls) ==
    IF calls = <<>> THEN <<>>
    ELSE <<ToolMsg(Invoke(calls[1], "status_1").result, calls[1])>>
         \o AloneResults(Tail(calls))

\* The working sequence of a turn that runs alone on the input i, after the
\* tool rounds of the responses rs.
RECURSIVE AloneMessages(_, _)
AloneMessages(i, rs) ==
    IF rs = <<>> THEN InitialMessages(i.message, i.history)
    ELSE LET r == rs[Len(rs)]
         IN AloneMessages(i, SubSeq(rs, 1, Len(rs) - 1))
            \o <<Msg("assistant", r.content, 0, r.tool_calls)>>
            \o AloneResults(r.tool_calls)

\* C19: whatever the other turn does in between, the k-th message sequence a
\* turn passes to the model is the one it passes when it runs alone on its
\* own arguments against the responses it got before, and the reply of a
\* turn that has returned is the text of its own last response.
TurnsDoNotInterfere ==
    \A t \in TurnIds :
        /\ \A k \in 1..Len(c_requests[t]) :
              c_requests[t][k] = AloneMessages(c_in[t], SubSeq(c_received[t], 1, k - 1))
        /\ c_pc[t] = "returned" =>
              /\ Len(c_received[t]) = Len(c_requests[t])
              /\ c_reply[t] = c_received[t][Len(c_received[t])].content
              /\ c_received[t][Len(c_received[t])].finish_reason # "tool_calls"

\* Both turns have returned, each after a tool round, with different
\* replies.
BothTurnsReturned ==
    /\ c_pc["a"] = "returned"
    /\ c_pc["b"] = "returned"
    /\ Len(c_requests["a"]) = 2
    /\ Len(c_requests["b"]) = 2
    /\ c_reply["a"] # c_reply["b"]

\* ------------------------------------------------------------- sales emails: properties
\* The sales_picker run of selection_from_sales_people has started.
PickerStarted ==
    /\ s_fn = "selection_from_sales_people"
    /\ s_emails # <<>>

\* C20: in whatever order the three sales agents' runs end, the sales_picker
\* run starts only when all three have ended with an output, and its input
\* holds the outputs of agent 1, agent 2 and agent 3 in that order.
PickerAfterJoinInAgentOrder ==
    /\ PickerStarted =>
          /\ \A a \in SalesAgents : s_run[a] = "done"
          /\ s_emails = <<"Cold sales emails:", s_output[1], "Email:",
                          s_output[2], "Email:", s_output[3]>>
    /\ s_pc \in {"picker", "done"} /\ s_fn = "selection_from_sales_people"
          => PickerStarted

\* The picker ran after the runs ended in the order 3, 1, 2 with outputs
\* that tell the orders apart.
PickedAfterReverseCompletion ==
    /\ PickerStarted
    /\ s_pc = "done"
    /\ s_order = <<3, 1, 2>>
    /\ s_output[1] # s_output[3]

\* ------------------------------------------------------------- comparison script: properties
\* The request to the judge has been sent.
JudgeSent == judge # NoJudge

\* C22: after each provider's query competitors and answers are equally long
\* and answers[i] is what competitors[i] returned; the request to the judge
\* is sent only when the three answers are recorded and holds them numbered
\* 1, 2, 3 in the order of the providers; and a reply of the judge that is no
\* JSON is reported as a parse error, raises nothing and leaves the script on
\* its way to the completion banner.
ComparisonInOrder ==
    /\ Len(competitors) = Len(answers)
    /\ \A i \in 1..Len(answers) :
          /\ competitors[i] = Providers[i]
          /\ answers[i] = returned_by[competitors[i]]
    /\ JudgeSent =>
          /\ Len(answers) = 3
          /\ judge.n = 3
          /\ judge.together = <<[number |-> 1, answer |-> answers[1]],
                                [number |-> 2, answer |-> answers[2]],
                                [number |-> 3, answer |-> answers[3]]>>
    /\ l_results.kind = "not_json" =>
          /\ l_pc \in {"parse", "banner", "done"}
          /\ l_error = None
          /\ l_pc # "parse" => parse_error /\ rankings = <<>>
    /\ l_pc = "done" => banner
    /\ parse_error => l_results.kind = "not_json"

\* The script printed its banner after a reply of the judge that was no
\* JSON, with answers that tell the providers apart.
BannerAfterParseError ==
    /\ l_pc = "done"
    /\ banner
    /\ parse_error
    /\ JudgeSent
    /\ answers[1] # answers[2]
    /\ answers[2] = answers[3]

====
